---- MODULE Spec2Model ----
(***************************************************************************)
(* Model of the Huffman codec of src/app.py: build_frequency_table,        *)
(* build_huffman_tree (over heapq), build_codes, huffman_compress and      *)
(* huffman_decompress.                                                     *)
(*                                                                         *)
(* Representation.  A character is a number of 1..NumSymbols.  A str of    *)
(* characters and a str of '0'/'1' digits are sequences.  A dict is the    *)
(* sequence of its <<key, value>> pairs in insertion order.  An optional   *)
(* reference (a Node or None) is a sequence of length 0 or 1.  A Python    *)
(* object that comes out of pickle is a record [t |-> type, v |-> value].  *)
(* Bound variables carry names no operator parameter has, and sequences    *)
(* are built with <<...>>, Append and \o only, never as [i \in 1..n |-> e], *)
(* which TLC keeps unevaluated under function application.                 *)
(***************************************************************************)
EXTENDS Integers, Sequences, FiniteSets, TLC

\* ---- bounds of the model ----
NumSymbols == 4
MaxLen == 5
MaxForgedBytes == 2
MaxCodeLen == 2
MaxCalls == 2

Symbols == 1..NumSymbols

None == <<>>

\* The texts huffman_compress is called on.  The code never looks at the value
\* of a character, it only uses characters as dict keys, so a text stands for
\* every text obtained from it by renaming characters: the texts enumerated are
\* those whose characters appear for the first time in the order 1, 2, 3, ...
MaxOf(t) == IF Len(t) = 0 THEN 0
            ELSE CHOOSE mx \in {t[ia] : ia \in 1..Len(t)} : \A ib \in 1..Len(t) : t[ib] <= mx

RECURSIVE TextsOfLen(_)
TextsOfLen(n) ==
    IF n = 0 THEN {<<>>}
    ELSE UNION {{Append(tx, ch) : ch \in {sy \in Symbols : sy <= MaxOf(tx) + 1}} :
                tx \in TextsOfLen(n - 1)}

Texts == UNION {TextsOfLen(ln) : ln \in 0..MaxLen}

\* ---- dict ----
DictKeys(d) == {d[ik][1] : ik \in 1..Len(d)}

DictHas(d, k) == \E ih \in 1..Len(d) : d[ih][1] = k

DictGet(d, k) == d[CHOOSE ig \in 1..Len(d) : d[ig][1] = k][2]

DictGetDefault(d, k, dflt) == IF DictHas(d, k) THEN DictGet(d, k) ELSE dflt

DictSet(d, k, v) ==
    IF DictHas(d, k)
    THEN [d EXCEPT ![CHOOSE is \in 1..Len(d) : d[is][1] = k] = <<k, v>>]
    ELSE Append(d, <<k, v>>)

\* ---- class Node ----
Node(char, freq) == [char |-> char, freq |-> freq, left |-> None, right |-> None]

LtReversed(self, other) == self.freq > other.freq

\* __lt__
Lt(self, other) == self.freq < other.freq

\* ---- build_frequency_table ----
RECURSIVE FreqLoop(_, _, _)
FreqLoop(d, i, freq) ==
    IF i > Len(d) THEN freq
    ELSE FreqLoop(d, i + 1,
                  DictSet(freq, d[i], DictGetDefault(freq, d[i], 0) + 1))

build_frequency_table(d) == FreqLoop(d, 1, <<>>)

\* ---- heapq (positions are 0-based as in Python; heap[p + 1] is item p) ----
RECURSIVE SiftdownLoop(_, _, _, _)
SiftdownLoop(h, startpos, pos, newitem) ==
    IF pos > startpos
    THEN LET parentpos == (pos - 1) \div 2
             parent == h[parentpos + 1]
         IN IF Lt(newitem, parent)
            THEN SiftdownLoop([h EXCEPT ![pos + 1] = parent],
                              startpos, parentpos, newitem)
            ELSE [h EXCEPT ![pos + 1] = newitem]
    ELSE [h EXCEPT ![pos + 1] = newitem]

siftdown(h, startpos, pos) == SiftdownLoop(h, startpos, pos, h[pos + 1])

RECURSIVE SiftupLoop(_, _, _, _, _)
SiftupLoop(h, startpos, pos, childpos, newitem) ==
    IF childpos < Len(h)
    THEN LET rightpos == childpos + 1
             c == IF rightpos < Len(h)
                     /\ ~Lt(h[childpos + 1], h[rightpos + 1])
                  THEN rightpos ELSE childpos
         IN SiftupLoop([h EXCEPT ![pos + 1] = h[c + 1]],
                       startpos, c, 2 * c + 1, newitem)
    ELSE siftdown([h EXCEPT ![pos + 1] = newitem], startpos, pos)

siftup(h, pos) == SiftupLoop(h, pos, pos, 2 * pos + 1, h[pos + 1])

RECURSIVE HeapifyLoop(_, _)
HeapifyLoop(x, i) == IF i < 0 THEN x ELSE HeapifyLoop(siftup(x, i), i - 1)

heapify(x) == HeapifyLoop(x, (Len(x) \div 2) - 1)

\* heappop returns <<item, heap after the pop>>
heappop(h) ==
    LET lastelt == h[Len(h)]
        rest == SubSeq(h, 1, Len(h) - 1)
    IN IF Len(rest) > 0
       THEN <<rest[1], siftup([rest EXCEPT ![1] = lastelt], 0)>>
       ELSE <<lastelt, rest>>

heappush(h, item) == siftdown(Append(h, item), 0, Len(h))

\* ---- build_huffman_tree ----
\* line 35: heap = [Node(ch, f) for ch, f in freq.items()]
RECURSIVE LeavesLoop(_, _)
LeavesLoop(freq, i) ==
    IF i > Len(freq) THEN <<>>
    ELSE <<Node(<<freq[i][1]>>, freq[i][2])>> \o LeavesLoop(freq, i + 1)

Leaves(freq) == LeavesLoop(freq, 1)

Merged(l, r) ==
    [char |-> None, freq |-> l.freq + r.freq,
     left |-> <<l>>, right |-> <<r>>]

\* one iteration of the while loop: <<left, right, merged, heap after>>
MergeOnce(h) ==
    LET p1 == heappop(h)
        p2 == heappop(p1[2])
        m == Merged(p1[1], p2[1])
    IN <<p1[1], p2[1], m, heappush(p2[2], m)>>

RECURSIVE MergeLoop(_)
MergeLoop(h) == IF Len(h) > 1 THEN MergeLoop(MergeOnce(h)[4]) ELSE h

TreeRoot(h) == IF Len(h) > 0 THEN <<h[1]>> ELSE None

build_huffman_tree(freq) == TreeRoot(MergeLoop(heapify(Leaves(freq))))

\* ---- build_codes: returns code_map as the call leaves it ----
LeftPrefix(prefix) == prefix \o <<0>>

RightPrefixZero(prefix) == prefix \o <<0>>

RightPrefix(prefix) == prefix \o <<1>>

RECURSIVE build_codes(_, _, _)
build_codes(node, prefix, code_map) ==
    IF Len(node) = 0 THEN code_map
    ELSE IF Len(node[1].char) > 0
         THEN DictSet(code_map, node[1].char[1], prefix)
         ELSE build_codes(node[1].right, RightPrefix(prefix),
                          build_codes(node[1].left, LeftPrefix(prefix), code_map))

\* ---- "{0:08b}".format(n) and int(s, 2) ----
RECURSIVE Bin(_)
Bin(n) == IF n = 0 THEN <<>> ELSE Append(Bin(n \div 2), n % 2)

RECURSIVE Zeros(_)
Zeros(n) == IF n <= 0 THEN <<>> ELSE Append(Zeros(n - 1), 0)

Format08b(n) == Zeros(8 - Len(Bin(n))) \o Bin(n)

RECURSIVE Int2(_)
Int2(s) == IF Len(s) = 0 THEN 0
           ELSE 2 * Int2(SubSeq(s, 1, Len(s) - 1)) + s[Len(s)]

\* ---- pickle: dumps wraps an object into a byte string that loads unwraps;
\* ---- any other byte string makes loads raise ----
Obj(t, v) == [t |-> t, v |-> v]

pickle_dumps(obj) == [t |-> "pickle", v |-> obj]

pickle_loads(d) ==
    IF d.t = "pickle" THEN [ok |-> TRUE, obj |-> d.v]
    ELSE [ok |-> FALSE, obj |-> Obj("NoneType", <<>>)]

\* ---- the exceptions the two functions can end with ----
EmptyInputError == "ValueError: Empty input cannot be compressed."
CorruptArtifactError == "ValueError: Corrupted compressed file."
IncompleteCodeError == "ValueError: Incomplete prefix code in compressed file."
AttributeErrorItems == "AttributeError: object has no attribute 'items'"
TypeErrorNotIterable == "TypeError: object is not iterable"
FormatError == "format: unsupported or unknown format code 'b'"
IntLiteralError == "ValueError: invalid literal for int() with base 2: ''"
NoError == ""

\* ---- huffman_compress, lines 71-87, from the code table on ----
RECURSIVE EncodeLoop(_, _, _)
EncodeLoop(codes, txt, i) ==
    IF i > Len(txt) THEN <<>>
    ELSE DictGet(codes, txt[i]) \o EncodeLoop(codes, txt, i + 1)

Encode(codes, txt) == EncodeLoop(codes, txt, 1)

Padding(encoded_text) == 8 - (Len(encoded_text) % 8)

\* lines 81-84: one byte for each slice of 8 digits
RECURSIVE ToBytes(_)
ToBytes(bits) ==
    IF Len(bits) = 0 THEN <<>>
    ELSE <<Int2(SubSeq(bits, 1, IF Len(bits) < 8 THEN Len(bits) ELSE 8))>>
         \o ToBytes(SubSeq(bits, 9, Len(bits)))

PackNoFullFiller(codes, txt) ==
    LET encoded_text == Encode(codes, txt)
        padding == Padding(encoded_text)
    IN ToBytes(Format08b(padding) \o encoded_text \o Zeros(padding % 8))

\* lines 71-84: the padding byte, the codes of the symbols in order, the filler
Pack(codes, txt) ==
    LET encoded_text == Encode(codes, txt)
        padding == Padding(encoded_text)
    IN ToBytes(Format08b(padding) \o encoded_text \o Zeros(padding))

CompressCodesShared(root, dflt) ==
    <<build_codes(root, <<>>, dflt), build_codes(root, <<>>, dflt)>>

\* lines 68-69: codes = {} ; build_codes(root, "", codes).
\* Returns <<codes, the default code_map of build_codes after the call>>.
CompressCodes(root, dflt) == <<build_codes(root, <<>>, <<>>), dflt>>

\* lines 68-87 once the tree is built: <<artifact, default code_map after>>
CompressTail(root, txt, dflt) ==
    LET cc == CompressCodes(root, dflt)
    IN <<pickle_dumps(Obj("tuple",
            <<Obj("bytes", Pack(cc[1], txt)), Obj("dict", cc[1])>>)), cc[2]>>

\* huffman_compress as a whole, for a non-empty text
huffman_compress(txt, dflt) ==
    CompressTail(build_huffman_tree(build_frequency_table(txt)), txt, dflt)

\* ---- huffman_decompress ----
\* the elements a Python object yields when iterated, or "not iterable"
RECURSIVE IntObjs(_, _)
IntObjs(s, i) ==
    IF i > Len(s) THEN <<>> ELSE <<Obj("int", s[i])>> \o IntObjs(s, i + 1)

RECURSIVE CharObjs(_, _)
CharObjs(s, i) ==
    IF i > Len(s) THEN <<>> ELSE <<Obj("str", <<s[i]>>)>> \o CharObjs(s, i + 1)

RECURSIVE KeyObjs(_, _)
KeyObjs(s, i) ==
    IF i > Len(s) THEN <<>> ELSE <<Obj("str", <<s[i][1]>>)>> \o KeyObjs(s, i + 1)

Iter(obj) ==
    IF obj.t = "tuple" THEN [ok |-> TRUE, items |-> obj.v]
    ELSE IF obj.t = "bytes" THEN [ok |-> TRUE, items |-> IntObjs(obj.v, 1)]
    ELSE IF obj.t = "dict" THEN [ok |-> TRUE, items |-> KeyObjs(obj.v, 1)]
    ELSE IF obj.t = "str" THEN [ok |-> TRUE, items |-> CharObjs(obj.v, 1)]
    ELSE [ok |-> FALSE, items |-> <<>>]

\* line 97: rev_codes = {v: k for k, v in codes.items()}
RECURSIVE RevLoop(_, _, _)
RevLoop(codes, i, rev) ==
    IF i > Len(codes) THEN rev
    ELSE RevLoop(codes, i + 1, DictSet(rev, codes[i][2], codes[i][1]))

RevCodes(codes) == RevLoop(codes, 1, <<>>)

\* lines 99-101
RECURSIVE BitsLoop(_, _)
BitsLoop(items, i) ==
    IF i > Len(items) THEN <<>>
    ELSE Format08b(items[i].v) \o BitsLoop(items, i + 1)

StripPaddingFront(bits) ==
    LET padding == Int2(SubSeq(bits, 1, IF Len(bits) < 8 THEN Len(bits) ELSE 8))
        rest == SubSeq(bits, 9, Len(bits))
    IN IF padding > 0
       THEN SubSeq(rest, padding + 1, Len(rest))
       ELSE rest

\* lines 104-106
StripPadding(bits) ==
    LET padding == Int2(SubSeq(bits, 1, IF Len(bits) < 8 THEN Len(bits) ELSE 8))
        rest == SubSeq(bits, 9, Len(bits))
    IN IF padding > 0
       THEN SubSeq(rest, 1, Len(rest) - padding)
       ELSE rest

\* lines 108-114: <<decoded_text, code>> when the loop ends
RECURSIVE DecodeLoop(_, _, _, _, _)
DecodeLoop(bits, i, rev_codes, decoded, cd) ==
    IF i > Len(bits) THEN <<decoded, cd>>
    ELSE LET c == Append(cd, bits[i])
         IN IF DictHas(rev_codes, c)
            THEN DecodeLoop(bits, i + 1, rev_codes,
                            Append(decoded, DictGet(rev_codes, c)), <<>>)
            ELSE DecodeLoop(bits, i + 1, rev_codes, decoded, c)

Raise(e) == [kind |-> "raise", err |-> e, text |-> <<>>, bit_string |-> <<>>, code |-> <<>>]

FinishUnchecked(bits, dec) ==
    [kind |-> "return", err |-> NoError, text |-> dec[1],
     bit_string |-> bits, code |-> dec[2]]

\* lines 116-119
Finish(bits, dec) ==
    IF dec[2] # <<>>
    THEN [kind |-> "raise", err |-> IncompleteCodeError, text |-> <<>>,
          bit_string |-> bits, code |-> dec[2]]
    ELSE [kind |-> "return", err |-> NoError, text |-> dec[1],
          bit_string |-> bits, code |-> dec[2]]

\* lines 96-119, with b and codes unpacked
DecompressPair(b, codes) ==
    IF codes.t # "dict" THEN Raise(AttributeErrorItems)
    ELSE IF ~Iter(b).ok THEN Raise(TypeErrorNotIterable)
    ELSE IF \E i4 \in 1..Len(Iter(b).items) : Iter(b).items[i4].t # "int"
    THEN Raise(FormatError)
    ELSE IF Len(Iter(b).items) = 0 THEN Raise(IntLiteralError)
    ELSE LET bits == StripPadding(BitsLoop(Iter(b).items, 1))
         IN Finish(bits,
                   DecodeLoop(bits, 1, RevCodes(codes.v), <<>>, <<>>))

huffman_decompress(d) ==
    LET loaded == pickle_loads(d)
    IN IF ~loaded.ok THEN Raise(CorruptArtifactError)
       ELSE IF ~Iter(loaded.obj).ok \/ Len(Iter(loaded.obj).items) # 2
       THEN Raise(CorruptArtifactError)
       ELSE DecompressPair(Iter(loaded.obj).items[1], Iter(loaded.obj).items[2])

\* ---- state ----
VARIABLES
    pc,                \* "idle", or "merge" inside build_huffman_tree's loop
    text,              \* argument of the last huffman_compress call
    heap,              \* build_huffman_tree: heap
    left, right, merged,   \* build_huffman_tree: locals of the last iteration
    code_map_default,  \* the default value of build_codes's code_map parameter
    artifact,          \* what the last huffman_compress returned, None if it raised
    data,              \* argument of the running or last call, if huffman_decompress
    outcome,           \* how the last call ended: [op, kind, err]
    decoded_text, bit_string, code,  \* huffman_decompress: locals at its end
    calls              \* history: the calls of either function so far, up to MaxCalls
\* The locals of a call (heap, left, right, merged; data, decoded_text,
\* bit_string, code) are those of the most recent call only: the next call
\* of either function starts without them.

vars == <<pc, text, heap, left, right, merged, code_map_default, artifact,
          data, outcome, decoded_text, bit_string, code, calls>>

treeVars == <<heap, left, right, merged>>
decodeVars == <<data, decoded_text, bit_string, code>>

Init ==
    /\ pc = "idle"
    /\ text = <<>>
    /\ heap = <<>>
    /\ left = None
    /\ right = None
    /\ merged = None
    /\ code_map_default = <<>>
    /\ artifact = None
    /\ data = None
    /\ outcome = [op |-> "none", kind |-> "none", err |-> NoError]
    /\ decoded_text = <<>>
    /\ bit_string = <<>>
    /\ code = <<>>
    /\ calls = 0

NotTextSkipped(T) == FALSE

\* line 62: if not text
NotText(T) == Len(T) = 0

Count(n) == IF n < MaxCalls THEN n + 1 ELSE n

\* huffman_compress(T), lines 61-66 up to the loop of build_huffman_tree
Compress(T) ==
    /\ pc = "idle"
    /\ text' = T
    /\ left' = None
    /\ right' = None
    /\ merged' = None
    /\ calls' = Count(calls)
    /\ IF NotText(T)
       THEN /\ outcome' = [op |-> "compress", kind |-> "raise", err |-> EmptyInputError]
            /\ artifact' = None
            /\ heap' = <<>>
            /\ pc' = "idle"
       ELSE /\ outcome' = [op |-> "compress", kind |-> "running", err |-> NoError]
            /\ artifact' = None
            /\ heap' = heapify(Leaves(build_frequency_table(T)))
            /\ pc' = "merge"
    /\ data' = None
    /\ decoded_text' = <<>>
    /\ bit_string' = <<>>
    /\ code' = <<>>
    /\ UNCHANGED code_map_default

\* one iteration of the loop of build_huffman_tree, lines 38-44
MergeStep ==
    /\ pc = "merge"
    /\ Len(heap) > 1
    /\ LET m == MergeOnce(heap)
       IN /\ left' = <<m[1]>>
          /\ right' = <<m[2]>>
          /\ merged' = <<m[3]>>
          /\ heap' = m[4]
    /\ UNCHANGED <<pc, text, code_map_default, artifact, outcome, decodeVars, calls>>

\* the loop has ended: line 46 and huffman_compress lines 68-87
CompressReturn ==
    /\ pc = "merge"
    /\ ~(Len(heap) > 1)
    /\ LET r == CompressTail(TreeRoot(heap), text, code_map_default)
       IN /\ artifact' = <<r[1]>>
          /\ code_map_default' = r[2]
    /\ outcome' = [op |-> "compress", kind |-> "return", err |-> NoError]
    /\ pc' = "idle"
    /\ UNCHANGED <<text, treeVars, decodeVars, calls>>

\* huffman_decompress(d)
Decompress(d) ==
    /\ pc = "idle"
    /\ calls' = Count(calls)
    /\ data' = d
    /\ LET r == huffman_decompress(d)
       IN /\ outcome' = [op |-> "decompress", kind |-> r.kind, err |-> r.err]
          /\ decoded_text' = r.text
          /\ bit_string' = r.bit_string
          /\ code' = r.code
    /\ heap' = <<>>
    /\ left' = None
    /\ right' = None
    /\ merged' = None
    /\ UNCHANGED <<pc, text, code_map_default, artifact>>

\* ---- the inputs huffman_decompress is called on ----
PayloadOf(art) == art.v.v[1].v
CodesOf(art) == art.v.v[2].v

\* the artifact with value p written in place of its padding byte
Tamper(art, p) ==
    pickle_dumps(Obj("tuple",
        <<Obj("bytes", [PayloadOf(art) EXCEPT ![1] = p]), Obj("dict", CodesOf(art))>>))

DecompressArtifact ==
    /\ artifact # None
    /\ Decompress(artifact[1])

Next ==
    \/ \E t0 \in Texts : Compress(t0)
    \/ MergeStep
    \/ CompressReturn
    \/ DecompressArtifact

Spec == Init /\ [][Next]_vars

\* ---- huffman_decompress on the artifact of a text with its padding byte
\* ---- overwritten: the text is drawn at the start, the byte by the call ----
InitTamper ==
    /\ pc = "idle"
    /\ text \in Texts \ {<<>>}
    /\ heap = <<>>
    /\ left = None
    /\ right = None
    /\ merged = None
    /\ code_map_default = huffman_compress(text, <<>>)[2]
    /\ artifact = <<huffman_compress(text, <<>>)[1]>>
    /\ data = None
    /\ outcome = [op |-> "compress", kind |-> "return", err |-> NoError]
    /\ decoded_text = <<>>
    /\ bit_string = <<>>
    /\ code = <<>>
    /\ calls = 1

DecompressTampered ==
    /\ outcome.op = "compress"
    /\ artifact # None
    /\ \E pb \in 0..255 : Decompress(Tamper(artifact[1], pb))

NextTamper == DecompressTampered

SpecTamper == InitTamper /\ [][NextTamper]_vars

\* ---- huffman_decompress on byte strings that no huffman_compress call made:
\* ---- each is drawn by the one call that is made on it ----
ForgedBytes == {0, 1, 2, 3, 7, 8, 9, 160, 255}

RECURSIVE PayloadsOfLen(_)
PayloadsOfLen(n) ==
    IF n = 0 THEN {<<>>}
    ELSE {Append(pl, by) : pl \in PayloadsOfLen(n - 1), by \in ForgedBytes}

ForgedPayloads == UNION {PayloadsOfLen(fl) : fl \in 0..MaxForgedBytes}

RECURSIVE BitStringsOfLen(_)
BitStringsOfLen(n) ==
    IF n = 0 THEN {<<>>}
    ELSE {Append(bs, bt) : bs \in BitStringsOfLen(n - 1), bt \in {0, 1}}

ForgedCodes == UNION {BitStringsOfLen(cl) : cl \in 0..MaxCodeLen}

ForgedTables ==
    {<<>>} \cup {<< <<1, c1>> >> : c1 \in ForgedCodes}
           \cup {<< <<1, c2>>, <<2, c3>> >> : c2 \in ForgedCodes, c3 \in ForgedCodes}

Forged(payload, table) ==
    pickle_dumps(Obj("tuple", <<Obj("bytes", payload), Obj("dict", table)>>))

SampleTable == << <<1, <<0>> >>, <<2, <<1>> >> >>

\* byte strings that are not the pickle of a (bytes, dict) pair
MalformedInputs ==
    << [t |-> "garbage", v |-> <<>>],
       pickle_dumps(Obj("int", 5)),
       pickle_dumps(Obj("NoneType", <<>>)),
       pickle_dumps(Obj("tuple", <<>>)),
       pickle_dumps(Obj("tuple", <<Obj("bytes", <<4, 224>>), Obj("dict", SampleTable),
                                   Obj("int", 0)>>)),
       pickle_dumps(Obj("bytes", <<4>>)),
       pickle_dumps(Obj("bytes", <<4, 224>>)),
       pickle_dumps(Obj("str", <<1, 2>>)),
       pickle_dumps(Obj("dict", SampleTable)),
       pickle_dumps(Obj("tuple", <<Obj("int", 5), Obj("dict", SampleTable)>>)),
       pickle_dumps(Obj("tuple", <<Obj("NoneType", <<>>), Obj("dict", SampleTable)>>)),
       pickle_dumps(Obj("tuple", <<Obj("str", <<1, 2>>), Obj("dict", SampleTable)>>)),
       pickle_dumps(Obj("tuple", <<Obj("dict", SampleTable), Obj("dict", SampleTable)>>)),
       pickle_dumps(Obj("tuple", <<Obj("bytes", <<4, 224>>), Obj("int", 5)>>)),
       pickle_dumps(Obj("tuple", <<Obj("bytes", <<4, 224>>), Obj("NoneType", <<>>)>>)),
       pickle_dumps(Obj("tuple", <<Obj("bytes", <<4, 224>>), Obj("bytes", <<4>>)>>)),
       pickle_dumps(Obj("tuple", <<Obj("tuple", <<Obj("int", 4), Obj("int", 224)>>),
                                   Obj("dict", SampleTable)>>)),
       pickle_dumps(Obj("tuple", <<Obj("tuple", <<Obj("int", 4), Obj("str", <<1>>)>>),
                                   Obj("dict", SampleTable)>>)) >>

DecompressForged ==
    /\ outcome.op = "none"
    /\ \E payload \in ForgedPayloads, table \in ForgedTables :
          Decompress(Forged(payload, table))

DecompressMalformed ==
    /\ outcome.op = "none"
    /\ \E mi \in 1..Len(MalformedInputs) : Decompress(MalformedInputs[mi])

NextDecode ==
    \/ DecompressForged
    \/ DecompressMalformed

SpecDecode == Init /\ [][NextDecode]_vars

\* ---- properties ----
SymbolsOf(txt) == {txt[si] : si \in 1..Len(txt)}

IsPrefix(u, w) == Len(u) <= Len(w) /\ SubSeq(w, 1, Len(u)) = u

Returned == outcome.op = "compress" /\ outcome.kind = "return" /\ artifact # None

OwnArtifactDecoded ==
    outcome.op = "decompress" /\ artifact # None /\ data = artifact[1]

\* C1: decompressing the artifact that huffman_compress made of a non-empty
\* text returns exactly that text.
C1_RoundTrip ==
    OwnArtifactDecoded => (outcome.kind = "return" /\ decoded_text = text)

\* C2: for an input with exactly one distinct symbol the code table maps that
\* symbol to a one-bit code, never to the empty bit-string.
C2_SingleSymbolCode ==
    (Returned /\ Cardinality(SymbolsOf(text)) = 1) =>
        (Len(CodesOf(artifact[1])) = 1 /\ Len(CodesOf(artifact[1])[1][2]) = 1)

TotalBits == Len(Encode(CodesOf(artifact[1]), text))

\* C3: the padding byte of the artifact is (8 - (totalBits mod 8)) mod 8, a
\* value of 0..7, where totalBits is the length of the concatenated codes.
C3_PaddingField ==
    Returned =>
        (/\ PayloadOf(artifact[1])[1] = (8 - (TotalBits % 8)) % 8
         /\ PayloadOf(artifact[1])[1] \in 0..7)

\* C4: huffman_compress on the empty text raises the empty-input error and
\* returns no artifact, whatever calls were made before it.
C4_EmptyInputFails ==
    (outcome.op = "compress" /\ text = <<>>) =>
        (/\ outcome.kind = "raise"
         /\ outcome.err = EmptyInputError
         /\ artifact = None
         /\ pc = "idle")

C4_Witness ==
    /\ outcome.op = "compress"
    /\ text = <<>>
    /\ outcome.kind = "raise"
    /\ calls >= 2

\* C5: in the code table of every artifact no symbol's code is a prefix of the
\* code of another symbol (so no two symbols share a code).
C5_PrefixFree ==
    Returned =>
        \A e1 \in 1..Len(CodesOf(artifact[1])), e2 \in 1..Len(CodesOf(artifact[1])) :
            e1 # e2 => ~IsPrefix(CodesOf(artifact[1])[e1][2], CodesOf(artifact[1])[e2][2])

C5_Witness ==
    /\ Returned
    /\ Len(CodesOf(artifact[1])) >= 3
    /\ \E e3 \in 1..Len(CodesOf(artifact[1])), e4 \in 1..Len(CodesOf(artifact[1])) :
          Len(CodesOf(artifact[1])[e3][2]) < Len(CodesOf(artifact[1])[e4][2])

IsPair(d) ==
    /\ d.t = "pickle"
    /\ d.v.t = "tuple"
    /\ Len(d.v.v) = 2
    /\ d.v.v[1].t = "bytes"
    /\ d.v.v[2].t = "dict"

\* C6: on a (payload bytes, code table) pair, if the decoder is left with a
\* non-empty candidate the call raises the incomplete-code error and returns no
\* text; a returned text is one whose codes, concatenated, are exactly the bits
\* walked.
C6_IncompleteCode ==
    (outcome.op = "decompress" /\ IsPair(data)) =>
        (/\ code # <<>> =>
               (/\ outcome.kind = "raise"
                /\ outcome.err = IncompleteCodeError
                /\ decoded_text = <<>>)
         /\ outcome.kind = "return" =>
               (/\ code = <<>>
                /\ \A ti \in 1..Len(decoded_text) : DictHas(CodesOf(data), decoded_text[ti])
                /\ Encode(CodesOf(data), decoded_text) = bit_string))

C6_Witness ==
    /\ outcome.op = "decompress"
    /\ IsPair(data)
    /\ outcome.kind = "raise"
    /\ outcome.err = IncompleteCodeError
    /\ Len(code) >= 2
    /\ Len(bit_string) > Len(code)

WellFramed(d) == IsPair(d) /\ Len(d.v.v[1].v) >= 1

\* C7: on a byte string that is not a validly framed artifact
\* huffman_decompress raises the corrupt-artifact error and nothing else.
C7_CorruptArtifact ==
    (outcome.op = "decompress" /\ ~WellFramed(data)) =>
        (outcome.kind = "raise" /\ outcome.err = CorruptArtifactError)

PaddingByteReplaced ==
    /\ outcome.op = "decompress"
    /\ artifact # None
    /\ IsPair(data)
    /\ \E pv \in 0..255 : data = Tamper(artifact[1], pv)

\* C8 as stated: with any value written in place of the padding byte,
\* huffman_decompress returns exactly the text or raises the incomplete-code or
\* the corrupt-artifact error.
C8_Original ==
    PaddingByteReplaced =>
        \/ outcome.kind = "return" /\ decoded_text = text
        \/ outcome.kind = "raise"
              /\ outcome.err \in {IncompleteCodeError, CorruptArtifactError}

\* C8 amended: with any value written in place of the padding byte,
\* huffman_decompress raises the incomplete-code error or returns the text, a
\* proper prefix of it, or the text followed by more symbols: never a different
\* text of the same length.
C8_TamperedPadding ==
    PaddingByteReplaced =>
        \/ outcome.kind = "return"
              /\ (IsPrefix(decoded_text, text) \/ IsPrefix(text, decoded_text))
              /\ (Len(decoded_text) = Len(text) => decoded_text = text)
        \/ outcome.kind = "raise" /\ outcome.err = IncompleteCodeError

C8_Witness ==
    /\ PaddingByteReplaced
    /\ PayloadOf(data)[1] # PayloadOf(artifact[1])[1]
    /\ outcome.kind = "return"
    /\ Len(decoded_text) > Len(text)
    /\ Cardinality(SymbolsOf(text)) >= 2

\* C9: the code table of each artifact has as its keys exactly the distinct
\* symbols of that call's input, and the default code_map of build_codes stays
\* empty, after any sequence of calls.
C9_FreshTable ==
    /\ code_map_default = <<>>
    /\ Returned => DictKeys(CodesOf(artifact[1])) = SymbolsOf(text)

C9_Witness ==
    /\ Returned
    /\ calls >= 2
    /\ SymbolsOf(text) = {1}

MergeStepOK ==
    (pc = "merge" /\ Len(heap) > 1) =>
        /\ Len(left') = 1 /\ Len(right') = 1 /\ Len(merged') = 1
        /\ \E q1 \in 1..Len(heap), q2 \in 1..Len(heap) :
              /\ q1 # q2
              /\ heap[q1] = left'[1]
              /\ heap[q2] = right'[1]
              /\ \A q3 \in 1..Len(heap) \ {q1, q2} :
                    /\ left'[1].freq <= heap[q3].freq
                    /\ right'[1].freq <= heap[q3].freq
                    /\ \E q4 \in 1..Len(heap') : heap'[q4] = heap[q3]
        /\ merged'[1].freq = left'[1].freq + right'[1].freq
        /\ merged'[1].left = left' /\ merged'[1].right = right'
        /\ \E q5 \in 1..Len(heap') : heap'[q5] = merged'[1]
        /\ Len(heap') = Len(heap) - 1

LoopExitOK ==
    ((pc = "merge" /\ ~(Len(heap) > 1)) \/ Returned) =>
        (Len(heap) = 1 /\ heap[1].freq = Len(text))

\* C10: at every merge step of build_huffman_tree the two nodes removed weigh
\* no more than any node that stays in the queue, the new node weighs their
\* sum, and the loop ends with one node, the root, whose weight is the length
\* of the input.
C10_MergeSteps == [][MergeStepOK]_vars /\ [](LoopExitOK)

C10_Witness ==
    /\ pc = "merge"
    /\ Len(merged) = 1
    /\ Len(heap) >= 2
    /\ \E q6 \in 1..Len(heap) : right[1].freq < heap[q6].freq /\ heap[q6] # merged[1]

\* the payload of the artifact as the decoder reads it (lines 99-101), without
\* the 8 bits of the padding byte
PayloadBits ==
    LET bits == BitsLoop(Iter(Obj("bytes", PayloadOf(artifact[1]))).items, 1)
    IN SubSeq(bits, 9, Len(bits))

FillerAppended == Len(PayloadBits) - TotalBits

BitsStripped == Len(PayloadBits) - Len(bit_string)

MultiSymbolDecoded ==
    OwnArtifactDecoded /\ Cardinality(SymbolsOf(text)) >= 2

\* C11: for an input with at least two distinct symbols, also when the length
\* of its concatenated codes is a multiple of 8, huffman_decompress strips as
\* many trailing bits as huffman_compress appended filler bits, and the bits
\* it walks are the codes of the input symbols in order, the payload being
\* those bits followed by the filler, most significant bit first.
C11_StrippedIsFiller ==
    MultiSymbolDecoded =>
        (/\ BitsStripped = FillerAppended
         /\ FillerAppended = PayloadOf(artifact[1])[1]
         /\ PayloadBits = Encode(CodesOf(artifact[1]), text) \o Zeros(FillerAppended)
         /\ bit_string = Encode(CodesOf(artifact[1]), text))

C11_Witness ==
    /\ MultiSymbolDecoded
    /\ outcome.kind = "return"
    /\ TotalBits > 0
    /\ TotalBits % 8 = 0
    /\ BitsStripped = 8
    /\ bit_string = Encode(CodesOf(artifact[1]), text)

====
